---- MODULE Spec2Model ----
(***************************************************************************)
(* napi-fuser: a FUSE filesystem whose operations are answered by          *)
(* JavaScript callbacks.  CallbacksProxy (src/src/fs_impl.rs) implements   *)
(* fuser's Filesystem trait on fuser's dispatch thread; every operation    *)
(* with a reply goes through the call_js! macro, which creates an mpsc     *)
(* channel, submits the arguments to a threadsafe function, and blocks in  *)
(* recv_timeout(30 s) until the completion path sends Some(value) or None, *)
(* the sender is dropped, or the timeout fires.                            *)
(*                                                                         *)
(* Two execution contexts are modelled: the dispatch thread (pc, cur,      *)
(* elapsed, replies, dirbuf) and the asynchronous NAPI side (handler,      *)
(* sendRes, notifs), which meet in the per-call channels (chan).           *)
(***************************************************************************)
EXTENDS Integers, Sequences, FiniteSets, TLC

(***************************************************************************)
(* Bounds of the model                                                     *)
(***************************************************************************)
\* proxy calls that own a reply sink, per run
MaxCalls == 2
\* seconds between two looks at the clock while the dispatch thread waits
TickSecs == 10
\* the clock is not advanced past this (never reached: the wait ends at 30)
MaxClock == 60
\* the longest directory listing a readdir handler returns
MaxListLen == 4
\* the largest number of entries the kernel's readdir buffer holds
MaxBufCap == 2
\* fire-and-forget notifications queued on the JS side at one time
MaxNotifs == 1
\* requests of the kernel in a run of the two-operation specification ReadSpec
MaxReadCalls == 3
\* calls of unmount on one mounter, per run
MaxUnmounts == 2
\* kernel requests with a reply sink in a run that follows the mounter
MaxMountCalls == 1

(***************************************************************************)
(* Program constants                                                       *)
(***************************************************************************)
\* Errno::EIO, Errno::ENOSYS, EPERM (Linux errno values)
EIO == 5
ENOSYS == 38
EPERM == 1
\* Duration::from_secs(30) of recv_timeout
RecvTimeoutSecs == 30
\* const TTL: Duration = Duration::from_secs(1)
TTL == 1
\* pub const BLOCK_SIZE: u64 = 4096
BLOCK_SIZE == 4096
\* INodeNo::ROOT
ROOT == 1
\* name length limit reported by statfs
NAME_MAX == 255
\* the bits FopenFlags::from_bits knows (FOPEN_DIRECT_IO .. FOPEN_PASSTHROUGH)
FOPEN_KNOWN_MASK == 255

(***************************************************************************)
(* Integer casts.  An `as u64` cast of an i64 x keeps the 64 bits: the     *)
(* result is x for x >= 0 and 2^64 + x for x < 0.  2^64 does not fit the   *)
(* checker's integers, so a u64 is kept exactly as the pair                *)
(* [wraps, low] that denotes wraps * 2^64 + low.                           *)
(***************************************************************************)
AsU64(x) == [wraps |-> IF x < 0 THEN 1 ELSE 0, low |-> x]

\* the u64 u is numerically the integer x
U64Is(u, x) == u.wraps = 0 /\ u.low = x

(***************************************************************************)
(* js_callbacks.rs: attribute translation                                  *)
(***************************************************************************)
to_file_type(kind) ==
  CASE kind = "Directory" -> "Directory"
    [] kind = "File"      -> "RegularFile"
    [] kind = "SymLink"   -> "Symlink"

\* blocks_in(size: u64): BLOCK_SIZE divides 2^64, so for size = wraps*2^64 + low
\* the quotient is wraps*2^52 + (low \div BLOCK_SIZE) and the remainder is
\* low % BLOCK_SIZE; the result is kept as [wraps52, low] = wraps52*2^52 + low.
blocks_in(size) ==
  LET d == size.low \div BLOCK_SIZE
      r == size.low % BLOCK_SIZE
  IN  [wraps52 |-> size.wraps, low |-> IF r > 0 THEN d + 1 ELSE d]

\* SystemTime::UNIX_EPOCH + Duration::from_millis(millis as u64):
\* a SystemTime is kept as its distance from the epoch in milliseconds.
system_time_from(millis) == [epoch_ms |-> AsU64(millis)]

into_fuse(self) ==
  LET mtime == system_time_from(self.mtime)
  IN  [ atime   |-> mtime,
        crtime  |-> system_time_from(self.btime),
        ctime   |-> system_time_from(self.ctime),
        flags   |-> self.flags,
        gid     |-> self.gid,
        uid     |-> self.uid,
        ino     |-> AsU64(self.ino),
        kind    |-> to_file_type(self.kind),
        mtime   |-> mtime,
        nlink   |-> 1,
        perm    |-> self.perm,
        rdev    |-> self.rdev,
        size    |-> AsU64(self.size),
        blksize |-> BLOCK_SIZE,
        blocks  |-> blocks_in(AsU64(self.size)) ]

(***************************************************************************)
(* fs_impl.rs: helpers                                                     *)
(***************************************************************************)
\* A name is a sequence of bytes (an OsStr).  The sampled names hold either
\* ASCII bytes only or a lone byte >= 0x80, which is not valid UTF-8.
IsUtf8(s) == \A i \in 1..Len(s) : s[i] < 128

\* str_from_os: s.to_str().unwrap().to_string(); unwrap panics on None
str_from_os(s) ==
  IF IsUtf8(s) THEN [panic |-> FALSE, str |-> s] ELSE [panic |-> TRUE, str |-> <<>>]

\* a variant of Errno_from_i32 that reports every handler error as EIO
Errno_from_i32_AlwaysEIO(code) == EIO

\* Errno::from_i32: an Errno holds a non-zero i32; 0 cannot be held and
\* becomes EIO
Errno_from_i32(code) == IF code = 0 THEN EIO ELSE code

\* a variant of FopenFlags_from_bits that drops the unknown bits
\* (FopenFlags::from_bits_truncate)
FopenFlags_from_bits_Truncate(flags) ==
  [some |-> TRUE, bits |-> flags % (FOPEN_KNOWN_MASK + 1)]

\* FopenFlags::from_bits: None when a bit outside the known ones is set
\* (the known bits are the low ones, so that is flags > FOPEN_KNOWN_MASK)
FopenFlags_from_bits(flags) ==
  IF flags \div (FOPEN_KNOWN_MASK + 1) = 0
  THEN [some |-> TRUE, bits |-> flags]
  ELSE [some |-> FALSE, bits |-> 0]

(***************************************************************************)
(* The reply sink (fuser's Reply* objects): one record per reply call.     *)
(***************************************************************************)
ReplyError(errno)         == [kind |-> "error", errno |-> errno]
ReplyEntry(ttl, attr, g)  == [kind |-> "entry", ttl |-> ttl, attr |-> attr, generation |-> g]
ReplyAttr(ttl, attr)      == [kind |-> "attr", ttl |-> ttl, attr |-> attr]
ReplyOpened(fh, flags)    == [kind |-> "opened", fh |-> fh, flags |-> flags]
ReplyData(data)           == [kind |-> "data", data |-> data]
ReplyOk                   == [kind |-> "ok"]
ReplyXattrData(data)      == [kind |-> "xattr_data", data |-> data]
ReplyXattrSize(size)      == [kind |-> "xattr_size", size |-> size]
ReplyStatfs(blocks, bfree, bavail, files, ffree, bsize, namelen, frsize) ==
  [kind |-> "statfs", blocks |-> blocks, bfree |-> bfree, bavail |-> bavail,
   files |-> files, ffree |-> ffree, bsize |-> bsize, namelen |-> namelen,
   frsize |-> frsize]

\* ReplyDirectory::add: appends the entry unless the buffer is full, and
\* returns true when it is full (the entry is then not added)
ReplyDirectory_add(buf, cap, entry) ==
  IF Len(buf) >= cap THEN [full |-> TRUE, buf |-> buf]
  ELSE [full |-> FALSE, buf |-> Append(buf, entry)]

\* what the match on the received value did: the reply calls it made, the
\* directory buffer it filled, the number of reply.add calls it made, and
\* whether it ran the translation closure ($with_reply)
Done(rs) == [replies |-> rs, dirbuf |-> <<>>, attempts |-> 0, translated |-> FALSE]

(***************************************************************************)
(* fs_impl.rs: the translation closures ($with_reply) of the operations    *)
(***************************************************************************)
\* a variant of send_xattr that answers the Size arm with a data reply
send_xattr_SizeAsData(xattr) ==
  CASE xattr.arm = "Data" -> Done(<<ReplyXattrData(xattr.data)>>)
    [] xattr.arm = "Size" -> Done(<<ReplyXattrData(<<>>)>>)
    [] xattr.arm = "Err"  -> Done(<<ReplyError(Errno_from_i32(xattr.code))>>)

send_xattr(xattr) ==
  CASE xattr.arm = "Data" -> Done(<<ReplyXattrData(xattr.data)>>)
    [] xattr.arm = "Size" -> Done(<<ReplyXattrSize(xattr.size)>>)
    [] xattr.arm = "Err"  -> Done(<<ReplyError(Errno_from_i32(xattr.code))>>)

lookup_reply(js_reply) ==
  CASE js_reply.arm = "Attr" ->
         Done(<<ReplyEntry(TTL, into_fuse(js_reply.attrs), 0)>>)
    [] js_reply.arm = "Err" ->
         Done(<<ReplyError(Errno_from_i32(js_reply.code))>>)

getattr_reply(js_reply) ==
  CASE js_reply.arm = "Attr" -> Done(<<ReplyAttr(TTL, into_fuse(js_reply.attrs))>>)
    [] js_reply.arm = "Err"  -> Done(<<ReplyError(Errno_from_i32(js_reply.code))>>)

setattr_reply(js_reply) ==
  CASE js_reply.arm = "Attr" -> Done(<<ReplyAttr(TTL, into_fuse(js_reply.attrs))>>)
    [] js_reply.arm = "Err"  -> Done(<<ReplyError(Errno_from_i32(js_reply.code))>>)

open_reply(js_reply) ==
  CASE js_reply.arm = "Params" ->
         LET flags == FopenFlags_from_bits(js_reply.params.flags)
         IN  IF flags.some
             THEN Done(<<ReplyOpened(AsU64(js_reply.params.fh), flags.bits)>>)
             ELSE Done(<<ReplyError(EIO)>>)
    [] js_reply.arm = "Err" ->
         Done(<<ReplyError(Errno_from_i32(js_reply.code))>>)

opendir_reply(js_reply) ==
  CASE js_reply.arm = "Params" ->
         LET flags == FopenFlags_from_bits(js_reply.params.flags)
         IN  IF flags.some
             THEN Done(<<ReplyOpened(AsU64(js_reply.params.fh), flags.bits)>>)
             ELSE Done(<<ReplyError(EIO)>>)
    [] js_reply.arm = "Err" ->
         Done(<<ReplyError(Errno_from_i32(js_reply.code))>>)

read_reply(js_reply) ==
  CASE js_reply.arm = "Ok"  -> Done(<<ReplyData(js_reply.data)>>)
    [] js_reply.arm = "Err" -> Done(<<ReplyError(Errno_from_i32(js_reply.code))>>)

\* a variant of release_reply that surfaces the handler's code as access does
release_reply_SurfaceCode(js_reply) ==
  IF js_reply.code = 0 THEN Done(<<ReplyOk>>)
  ELSE Done(<<ReplyError(Errno_from_i32(js_reply.code))>>)

\* |_| { reply.ok(); }
release_reply(js_reply) == Done(<<ReplyOk>>)

releasedir_reply(js_reply) == Done(<<ReplyOk>>)

\* one reply.add call of the readdir loop: the arguments it passes for `entry`
\* when listing directory `ino`
readdir_add_args(ino, entry) ==
  [ino |-> ino, offset |-> AsU64(entry.offset), kind |-> to_file_type(entry.kind),
   name |-> entry.name]

\* a variant of readdir_loop without the break: it goes on after a full buffer
RECURSIVE readdir_loop_NoBreak(_, _, _, _, _)
readdir_loop_NoBreak(ino, lst, i, buf, cap) ==
  IF i > Len(lst) THEN [buf |-> buf, attempts |-> i - 1]
  ELSE LET r == ReplyDirectory_add(buf, cap, readdir_add_args(ino, lst[i]))
       IN  readdir_loop_NoBreak(ino, lst, i + 1, r.buf, cap)

\* for entry in lst { if reply.add(..) { break; } }, from entry i on
RECURSIVE readdir_loop(_, _, _, _, _)
readdir_loop(ino, lst, i, buf, cap) ==
  IF i > Len(lst) THEN [buf |-> buf, attempts |-> i - 1]
  ELSE LET r == ReplyDirectory_add(buf, cap, readdir_add_args(ino, lst[i]))
       IN  IF r.full THEN [buf |-> r.buf, attempts |-> i]
           ELSE readdir_loop(ino, lst, i + 1, r.buf, cap)

\* a variant of readdir_reply with reply.ok() after the match, so that it
\* runs on the Err arm too
readdir_reply_OkAfterMatch(ino, cap, js_reply) ==
  CASE js_reply.arm = "Lst" ->
         LET l == readdir_loop(ino, js_reply.lst, 1, <<>>, cap)
         IN  [replies |-> <<ReplyOk>>, dirbuf |-> l.buf, attempts |-> l.attempts,
              translated |-> FALSE]
    [] js_reply.arm = "Err" ->
         Done(<<ReplyError(Errno_from_i32(js_reply.code)), ReplyOk>>)

readdir_reply(ino, cap, js_reply) ==
  CASE js_reply.arm = "Lst" ->
         LET l == readdir_loop(ino, js_reply.lst, 1, <<>>, cap)
         IN  [replies |-> <<ReplyOk>>, dirbuf |-> l.buf, attempts |-> l.attempts,
              translated |-> FALSE]
    [] js_reply.arm = "Err" ->
         Done(<<ReplyError(Errno_from_i32(js_reply.code))>>)

\* a variant of access_reply that ignores the handler's code
access_reply_IgnoreCode(err_code) == Done(<<ReplyOk>>)

access_reply(err_code) ==
  IF err_code.code = 0 THEN Done(<<ReplyOk>>)
  ELSE Done(<<ReplyError(Errno_from_i32(err_code.code))>>)

\* ($with_reply)(js_reply) of the operation of call c
WithReply(c, js_reply) ==
  CASE c.op = "lookup"     -> lookup_reply(js_reply)
    [] c.op = "getattr"    -> getattr_reply(js_reply)
    [] c.op = "setattr"    -> setattr_reply(js_reply)
    [] c.op = "open"       -> open_reply(js_reply)
    [] c.op = "read"       -> read_reply(js_reply)
    [] c.op = "release"    -> release_reply(js_reply)
    [] c.op = "opendir"    -> opendir_reply(js_reply)
    [] c.op = "readdir"    -> readdir_reply(c.ino, c.cap, js_reply)
    [] c.op = "releasedir" -> releasedir_reply(js_reply)
    [] c.op = "getxattr"   -> send_xattr(js_reply)
    [] c.op = "listxattr"  -> send_xattr(js_reply)
    [] c.op = "access"     -> access_reply(js_reply)

(***************************************************************************)
(* Inputs: the arguments fuser passes and the values a JS handler may      *)
(* resolve with, drawn from small sets.                                    *)
(***************************************************************************)
\* the inode of a file operation, and the directories readdir lists
Inos == {42}
DirInos == {ROOT, 2}

\* "a", and a lone 0xff byte (not UTF-8)
Names == {<<97>>, <<255>>}

\* requested sizes of read
ReadSizes == {2, 4096}

\* requested sizes of getxattr/listxattr: the size query, and a buffer of 64
XattrSizes == {0, 64}

\* error codes a handler may put in an Err arm (ENOENT is 2), 0 and a
\* negative number included
Codes == {-1, 0, 2, EIO}

AttrSamples ==
  { [ino |-> 42, size |-> 1024, mtime |-> 3000, ctime |-> 2000, btime |-> 1000,
     kind |-> "File", perm |-> 420, uid |-> 1000, gid |-> 100, rdev |-> 0, flags |-> 0],
    [ino |-> 2, size |-> 0, mtime |-> 0, ctime |-> 0, btime |-> 0,
     kind |-> "Directory", perm |-> 493, uid |-> 0, gid |-> 0, rdev |-> 0, flags |-> 0],
    [ino |-> 7, size |-> 8192, mtime |-> -1000, ctime |-> 2000, btime |-> -1000,
     kind |-> "SymLink", perm |-> 511, uid |-> 1000, gid |-> 100, rdev |-> 3, flags |-> 1],
    [ino |-> -1, size |-> -1, mtime |-> 3000, ctime |-> 2000, btime |-> 1000,
     kind |-> "File", perm |-> 420, uid |-> 1000, gid |-> 100, rdev |-> 0, flags |-> 0] }

\* flags 1 is FOPEN_DIRECT_IO; bit 20 is no open-reply flag; a handle is any
\* i64, a negative one included
ParamsSamples ==
  { [fh |-> 3, flags |-> 0], [fh |-> -1, flags |-> 1], [fh |-> 5, flags |-> 1048576],
    [fh |-> 6, flags |-> 1048577] }

BufferSamples == { <<>>, <<104, 105>> }

\* an extended attribute of 17 bytes
XattrValue == [i \in 1..17 |-> 120]

\* the i-th entry of a directory: offsets are cursor tokens, not contiguous
DirEntrySample(i) ==
  [ino |-> 10 + i, offset |-> 3 * i,
   kind |-> IF i % 3 = 1 THEN "File" ELSE IF i % 3 = 2 THEN "Directory" ELSE "SymLink",
   name |-> <<96 + i>>]

Listing(n) == [i \in 1..n |-> DirEntrySample(i)]

Err(S) == { [arm |-> "Err", code |-> e] : e \in S }

\* the values the promise of an operation's handler may resolve with
HandlerValues(op) ==
  CASE op \in {"lookup", "getattr", "setattr"} ->
         { [arm |-> "Attr", attrs |-> a] : a \in AttrSamples } \cup Err(Codes)
    [] op \in {"open", "opendir"} ->
         { [arm |-> "Params", params |-> q] : q \in ParamsSamples } \cup Err(Codes)
    [] op = "read" ->
         { [arm |-> "Ok", data |-> d] : d \in BufferSamples } \cup Err(Codes)
    [] op = "readdir" ->
         { [arm |-> "Lst", lst |-> Listing(n)] : n \in 0..MaxListLen } \cup Err(Codes)
    [] op \in {"getxattr", "listxattr"} ->
         { [arm |-> "Data", data |-> XattrValue], [arm |-> "Size", size |-> 17] }
           \cup Err(Codes)
    [] op \in {"release", "releasedir", "access"} ->
         { [arm |-> "Code", code |-> e] : e \in Codes }
    [] OTHER -> {}

(***************************************************************************)
(* State                                                                   *)
(***************************************************************************)
VARIABLES
  session,     \* fuser's session: "none" (not mounted), "new", "running" (after
               \* init), "destroyed"
  initResult,  \* what init returned to the session: "none" or "Ok"
  pc,          \* dispatch thread: "idle", "waiting" (in recv_timeout),
               \* "returned" (the proxy method returned), "panicked"
  ncalls,      \* calls with a reply sink made so far; call ids are 1..ncalls
  cur,         \* the call the dispatch thread is in, or was in last: its id,
               \* operation and arguments, how its completion path ended (how),
               \* how its receive ended (recv) and with which value (val),
               \* whether the translation closure ran, the reply.add calls made
  elapsed,     \* seconds the dispatch thread has spent in the recv_timeout it
               \* is blocked in (0 when it is not in one)
  chan,        \* the channels: buffer, receiver and sender, by channel id
  handler,     \* per call: the JS handler invocation: "none", "pending" (submitted,
               \* the completion path has not run to its end), "done"
  sendRes,     \* per call: the result of tx_done_signal.send
  replies,     \* the reply calls made on the reply sink of call cur
  replyCount,  \* per call: the number of replies its reply sink has received
  dirbuf,      \* the entries in the ReplyDirectory buffer of call cur
  notifs,      \* fire-and-forget calls queued for the JS thread
  napiPanicked,\* a completion path on the NAPI side has panicked
  budget,      \* the number of requests with a reply sink the kernel sends in
               \* this run
  proxy,       \* the CallbacksProxy the session runs: its one field cbs, the
               \* registry of handlers, a callback by operation
  mounter,     \* the JsFSMounter and the thread that owns the session: what
               \* make_and_mount returned (result), where the owning thread
               \* is (owner), what spawn_mount2 returned (mounting), the
               \* unmount channel (sigs queued, rx, tx), the calls of unmount
               \* and what the last returned, the sessions created and the
               \* joins made, whether unmount panicked
  readLog      \* history of the reads, kept when it is on: for the last read
               \* that returned before the call in cur was made (prev), its
               \* arguments, what it received from its handler, and the
               \* replies it made; nothing reads it

vars == <<session, initResult, pc, ncalls, cur, elapsed, chan, handler, sendRes,
          replies, replyCount, dirbuf, notifs, napiPanicked, budget, proxy,
          mounter, readLog>>

CallIds == 1..(IF MaxCalls > MaxReadCalls THEN MaxCalls ELSE MaxReadCalls)

NotLogged == [set |-> FALSE]

\* the handlers make_and_mount is given: CallbacksToJS { init, destroy, .. },
\* each a callback of the JS side, named here by its operation
Registry ==
  [op \in {"init", "destroy", "lookup", "forget", "getattr", "setattr", "open",
           "read", "release", "opendir", "readdir", "releasedir", "getxattr",
           "listxattr", "access"} |-> <<"js", op>>]

\* CallbacksProxy::make: CallbacksProxy { cbs }
CallbacksProxy_make(cbs) == [cbs |-> cbs]

\* self.cbs.<op>: the callback the proxy calls for an operation
js_fn(self, op) == IF op \in DOMAIN self.cbs THEN self.cbs[op] ELSE <<>>

ValueOps == {"lookup", "getattr", "setattr", "open", "read", "release", "opendir",
             "readdir", "releasedir", "getxattr", "listxattr", "access"}
FireAndForgetOps == {"init", "destroy", "forget"}
NoHandlerOps == {"readlink", "statfs", "symlink", "link"}

NoChannel == [buf |-> <<>>, rx |-> "none", tx |-> "none"]
NewChannel == [buf |-> <<>>, rx |-> "open", tx |-> "open"]

Call(id, op, ino, name, size, cap) ==
  [id |-> id, op |-> op, ino |-> ino, name |-> name, size |-> size, cap |-> cap,
   how |-> "none", recv |-> "none", val |-> [arm |-> "None"],
   translated |-> FALSE, attempts |-> 0, fn |-> <<>>]

\* before make_and_mount is called: no channel, no thread, no session
NoMounter ==
  [result |-> "none", owner |-> "none", mounting |-> "none", sigs |-> 0,
   rx |-> "none", tx |-> "none", unmounts |-> 0, unmountRes |-> "none",
   sessions |-> 0, teardowns |-> 0, panicked |-> FALSE]

\* make_and_mount has returned, spawn_mount2 has returned Ok(mount_session)
\* and the owning thread is blocked in rx_unmount_signal.recv()
Mounted ==
  [NoMounter EXCEPT !.result = "Ok", !.owner = "recv", !.mounting = "Ok",
                    !.rx = "open", !.tx = "open", !.sessions = 1]

\* the state with mounter m and session s (Mounted and "new" once
\* make_and_mount has spawned the session), for a run of `requests` kernel
\* requests, with the history of reads kept or not
InitWith(requests, logging, m, s) ==
  /\ budget = requests
  /\ proxy = CallbacksProxy_make(Registry)
  /\ readLog = [on |-> logging, prev |-> NotLogged]
  /\ mounter = m
  /\ session = s
  /\ initResult = "none"
  /\ pc = "idle"
  /\ ncalls = 0
  /\ cur = Call(0, "none", 0, <<>>, 0, 0)
  /\ elapsed = 0
  /\ chan = [c \in CallIds |-> NoChannel]
  /\ handler = [c \in CallIds |-> "none"]
  /\ sendRes = [c \in CallIds |-> "none"]
  /\ replies = <<>>
  /\ replyCount = [c \in CallIds |-> 0]
  /\ dirbuf = <<>>
  /\ notifs = 0
  /\ napiPanicked = FALSE

Init == InitWith(MaxCalls, FALSE, Mounted, "new")

(***************************************************************************)
(* call_js!: the rendezvous channel                                        *)
(***************************************************************************)
\* a variant of ChanOf for a bridge that makes one channel for two calls in
\* a row
ChanOf_SharedByTwo(id) == (id + 1) \div 2

\* let (tx_done_signal, rx_done_signal) = channel(): every call makes a
\* channel of its own
ChanOf(id) == id

\* Sender::send: queues the message while the receiver lives, and returns
\* Err (the message is dropped) once the receiver is gone
mpsc_send(ch, m) ==
  IF ch.rx = "open" THEN [ok |-> TRUE, ch |-> [ch EXCEPT !.buf = Append(@, m)]]
  ELSE [ok |-> FALSE, ch |-> ch]

\* a variant of SendResultPanics for tx_done_signal.send(..).unwrap()
SendResultPanics_Unwrap(ok) == ~ok

\* `let _ = tx_done_signal.send(..)`: the Result of the send is discarded,
\* so an Err does not panic the completion path
SendResultPanics(ok) == FALSE

\* a variant of RecvTimedOut for a plain recv(), which has no timeout
RecvTimedOut_Never(e) == FALSE

\* the timeout of recv_timeout(Duration::from_secs(30)) has passed
RecvTimedOut(e) == e >= RecvTimeoutSecs

\* Receiver::recv_timeout after e seconds of waiting: a queued message, else
\* Disconnected when the sender is gone, else Timeout when the time is up,
\* else the thread stays blocked
recv_timeout(ch, e) ==
  IF ch.buf # <<>> THEN [r |-> "msg", msg |-> Head(ch.buf)]
  ELSE IF ch.tx = "dropped" THEN [r |-> "disconnected"]
  ELSE IF RecvTimedOut(e) THEN [r |-> "timeout"]
  ELSE [r |-> "blocked"]

\* a variant of MatchRecv whose `_` arm makes no reply
MatchRecv_SilentOnFailure(c, res) ==
  IF res.r = "msg" /\ res.msg.some
  THEN [WithReply(c, res.msg.val) EXCEPT !.translated = TRUE]
  ELSE Done(<<>>)

\* a variant of MatchRecv that takes a received None for success
MatchRecv_NoneIsOk(c, res) ==
  IF res.r = "msg" /\ res.msg.some
  THEN [WithReply(c, res.msg.val) EXCEPT !.translated = TRUE]
  ELSE IF res.r = "msg" THEN Done(<<ReplyOk>>)
  ELSE Done(<<ReplyError(EIO)>>)

\* a variant of MatchRecv for a bridge with a field shared between calls:
\* while the handler of the first call has not settled, every later call is
\* answered EIO
MatchRecv_SharedBusyFlag(c, res) ==
  IF c.id > 1 /\ handler[1] = "pending" THEN Done(<<ReplyError(EIO)>>)
  ELSE IF res.r = "msg" /\ res.msg.some
  THEN [WithReply(c, res.msg.val) EXCEPT !.translated = TRUE]
  ELSE Done(<<ReplyError(EIO)>>)

\* a variant of MatchRecv that tells a timeout from the other failures: it
\* replies ETIMEDOUT (110) when the wait timed out
MatchRecv_TimeoutCode(c, res) ==
  IF res.r = "msg" /\ res.msg.some
  THEN [WithReply(c, res.msg.val) EXCEPT !.translated = TRUE]
  ELSE IF res.r = "timeout" THEN Done(<<ReplyError(110)>>)
  ELSE Done(<<ReplyError(EIO)>>)

\* match rx_done_signal.recv_timeout(..) {
\*   Ok(Some(js_reply)) => ($with_reply)(js_reply), _ => $reply.error(Errno::EIO) }
MatchRecv(c, res) ==
  IF res.r = "msg" /\ res.msg.some
  THEN [WithReply(c, res.msg.val) EXCEPT !.translated = TRUE]
  ELSE Done(<<ReplyError(EIO)>>)

\* the value recv_timeout handed to the match, kept in cur.val
RecvValue(res) == IF res.r = "msg" THEN res.msg.val ELSE [arm |-> "None"]

\* how the receive ended, kept in cur.recv
RecvKind(res) ==
  IF res.r = "msg" THEN (IF res.msg.some THEN "Some" ELSE "None") ELSE res.r

\* the blocked thread is woken at the next look at the clock or at its
\* deadline, whichever comes first
NextWake(e) ==
  IF e < RecvTimeoutSecs /\ e + TickSecs > RecvTimeoutSecs THEN RecvTimeoutSecs
  ELSE e + TickSecs

\* a variant of Ready for a session that hands the next request to the
\* proxy while the previous one is still in its wait
Ready_WhileWaiting == session = "running" /\ pc \in {"idle", "returned", "waiting"}

\* the dispatch thread is between two operations of a running session
Ready == session = "running" /\ pc \in {"idle", "returned"}

\* the history of reads when the dispatch thread leaves the call in cur for
\* the next one
LogRead ==
  IF readLog.on /\ cur.op = "read" /\ pc = "returned"
  THEN [readLog EXCEPT !.prev = [set |-> TRUE, ino |-> cur.ino, size |-> cur.size,
                                 recv |-> cur.recv, val |-> cur.val,
                                 replies |-> replies]]
  ELSE readLog

(***************************************************************************)
(* call_js!, arm @initial-thread: create the channel, evaluate the         *)
(* arguments (argsPanic: an unwrap in them panics), submit the call to the *)
(* threadsafe function, and block in recv_timeout.                         *)
(***************************************************************************)
CallJs(op, ino, name, size, cap, argsPanic) ==
  LET id == ncalls + 1 IN
  /\ Ready
  /\ ncalls < budget
  /\ ncalls' = id
  /\ cur' = [Call(id, op, ino, name, size, cap) EXCEPT !.fn = js_fn(proxy, op)]
  /\ elapsed' = 0
  /\ replies' = <<>>
  /\ dirbuf' = <<>>
  /\ IF argsPanic
     THEN /\ pc' = "panicked"
          /\ chan' = [chan EXCEPT ![ChanOf(id)] =
                        [buf |-> <<>>, rx |-> "dropped", tx |-> "dropped"]]
          /\ handler' = handler
     ELSE /\ pc' = "waiting"
          /\ chan' = [chan EXCEPT ![ChanOf(id)] = NewChannel]
          /\ handler' = [handler EXCEPT ![id] = "pending"]
  /\ readLog' = LogRead
  /\ UNCHANGED <<session, initResult, sendRes, replyCount, notifs, napiPanicked,
                 budget, proxy, mounter>>

\* time passes while the dispatch thread is blocked in recv_timeout
Tick ==
  /\ pc = "waiting"
  /\ recv_timeout(chan[ChanOf(cur.id)], elapsed).r = "blocked"
  /\ elapsed < MaxClock
  /\ elapsed' = NextWake(elapsed)
  /\ UNCHANGED <<session, initResult, pc, ncalls, cur, chan, handler, sendRes,
                 replies, replyCount, dirbuf, notifs, napiPanicked, budget, readLog, proxy, mounter>>

\* recv_timeout returns, the match makes the reply, the method returns and
\* drops the receiver
Recv ==
  /\ pc = "waiting"
  /\ LET res == recv_timeout(chan[ChanOf(cur.id)], elapsed)
         out == MatchRecv(cur, res)
     IN  /\ res.r # "blocked"
         /\ replies' = replies \o out.replies
         /\ dirbuf' = out.dirbuf
         /\ replyCount' = [replyCount EXCEPT ![cur.id] = @ + Len(out.replies)]
         /\ cur' = [cur EXCEPT !.recv = RecvKind(res),
                               !.val = RecvValue(res),
                               !.translated = out.translated,
                               !.attempts = out.attempts]
  /\ chan' = [chan EXCEPT ![ChanOf(cur.id)] = [@ EXCEPT !.buf = <<>>, !.rx = "dropped"]]
  /\ pc' = "returned"
  /\ elapsed' = 0
  /\ UNCHANGED <<session, initResult, ncalls, handler, sendRes, notifs, napiPanicked,
                 budget, readLog, proxy, mounter>>

(***************************************************************************)
(* The completion path on the NAPI side (the closure given to              *)
(* call_with_return_value and the future it spawns)                        *)
(***************************************************************************)
\* the values the handler of call c may resolve with; the operation of a
\* call older than cur is no longer known to the model
ValuesFor(c) == IF c = cur.id THEN HandlerValues(cur.op) ELSE {[arm |-> "Stale"]}

\* a variant of Complete for the arm @napi-thread of call_js!: the completion
\* path makes the reply itself, on the NAPI side
Complete_NapiThreadReplies(c, how, m) ==
  /\ c <= ncalls
  /\ handler[c] = "pending"
  /\ LET r == mpsc_send(chan[ChanOf(c)], m)
     IN  /\ chan' = [chan EXCEPT ![ChanOf(c)] = [r.ch EXCEPT !.tx = "dropped"]]
         /\ sendRes' = [sendRes EXCEPT ![c] = IF r.ok THEN "ok" ELSE "discarded"]
         /\ napiPanicked' = (napiPanicked \/ SendResultPanics(r.ok))
  /\ handler' = [handler EXCEPT ![c] = "done"]
  /\ cur' = IF c = cur.id THEN [cur EXCEPT !.how = how] ELSE cur
  /\ LET out == IF m.some /\ c = cur.id THEN WithReply(cur, m.val)
                ELSE Done(<<ReplyError(EIO)>>)
     IN  /\ replies' = IF c = cur.id THEN replies \o out.replies ELSE replies
         /\ dirbuf' = IF c = cur.id THEN out.dirbuf ELSE dirbuf
         /\ replyCount' = [replyCount EXCEPT ![c] = @ + Len(out.replies)]
  /\ UNCHANGED <<session, initResult, pc, ncalls, elapsed, notifs, budget, readLog, proxy, mounter>>

\* the completion path of call c runs to its send; how (kept in cur.how
\* while c is the call in cur): "resolved", "rejected", "call_failed"
Complete(c, how, m) ==
  /\ c <= ncalls
  /\ handler[c] = "pending"
  /\ LET r == mpsc_send(chan[ChanOf(c)], m)
     IN  /\ chan' = [chan EXCEPT ![ChanOf(c)] = [r.ch EXCEPT !.tx = "dropped"]]
         /\ sendRes' = [sendRes EXCEPT ![c] = IF r.ok THEN "ok" ELSE "discarded"]
         /\ napiPanicked' = (napiPanicked \/ SendResultPanics(r.ok))
  /\ handler' = [handler EXCEPT ![c] = "done"]
  /\ cur' = IF c = cur.id THEN [cur EXCEPT !.how = how] ELSE cur
  /\ UNCHANGED <<session, initResult, pc, ncalls, elapsed, replies, replyCount,
                 dirbuf, notifs, budget, readLog, proxy, mounter>>

\* Ok(js_reply) => tx_done_signal.send(Some(js_reply))
HandlerResolves ==
  \E c \in CallIds : \E v \in ValuesFor(c) :
    Complete(c, "resolved", [from |-> c, some |-> TRUE, val |-> v])

\* js_reply.await is Err(_) => tx_done_signal.send(None)
HandlerRejects ==
  \E c \in CallIds :
    Complete(c, "rejected", [from |-> c, some |-> FALSE, val |-> [arm |-> "None"]])

\* the callback gets Err(_) (the call into JS failed) => tx_done_signal.send(None)
JsCallFails ==
  \E c \in CallIds :
    Complete(c, "call_failed", [from |-> c, some |-> FALSE, val |-> [arm |-> "None"]])

\* the closure or the spawned future is dropped without running to a send
\* (the call was not queued, or spawn_future failed): the sender is dropped
SenderDropped ==
  \E c \in CallIds :
    /\ c <= ncalls
    /\ handler[c] = "pending"
    /\ handler' = [handler EXCEPT ![c] = "done"]
    /\ cur' = IF c = cur.id THEN [cur EXCEPT !.how = "dropped"] ELSE cur
    /\ chan' = [chan EXCEPT ![ChanOf(c)] = [@ EXCEPT !.tx = "dropped"]]
    /\ UNCHANGED <<session, initResult, pc, ncalls, elapsed, sendRes, replies,
                   replyCount, dirbuf, notifs, napiPanicked, budget, readLog, proxy, mounter>>

(***************************************************************************)
(* call_js!, arms #0 and #1: $js_fn.call(.., Blocking); the returned       *)
(* status is not looked at.  accepted: the call was queued for JS (kept in  *)
(* cur.how as "queued" or "refused").                                      *)
(***************************************************************************)
CallJsNotify(op, ino, accepted) ==
  /\ accepted => notifs < MaxNotifs
  /\ notifs' = IF accepted THEN notifs + 1 ELSE notifs
  /\ cur' = [Call(0, op, ino, <<>>, 0, 0) EXCEPT
               !.how = IF accepted THEN "queued" ELSE "refused",
               !.fn = js_fn(proxy, op)]
  /\ pc' = "returned"
  /\ elapsed' = 0
  /\ replies' = <<>>
  /\ dirbuf' = <<>>
  /\ readLog' = LogRead
  /\ UNCHANGED <<ncalls, chan, handler, sendRes, replyCount, napiPanicked, budget, mounter>>

\* the JS thread runs a queued fire-and-forget callback
RunNotification ==
  /\ notifs > 0
  /\ notifs' = notifs - 1
  /\ UNCHANGED <<session, initResult, pc, ncalls, cur, elapsed, chan, handler,
                 sendRes, replies, replyCount, dirbuf, napiPanicked, budget, readLog, proxy, mounter>>

(***************************************************************************)
(* impl Filesystem for CallbacksProxy                                      *)
(***************************************************************************)
\* a variant of init that returns the submission's failure to the session
init_PropagatesFailure ==
  /\ session = "new"
  /\ pc = "idle"
  /\ \E accepted \in BOOLEAN :
       /\ CallJsNotify("init", ROOT, accepted)
       /\ initResult' = IF accepted THEN "Ok" ELSE "Err"
  /\ session' = "running"
  /\ UNCHANGED proxy

init ==
  /\ session = "new"
  /\ pc = "idle"
  /\ \E accepted \in BOOLEAN : CallJsNotify("init", ROOT, accepted)
  /\ session' = "running"
  /\ initResult' = "Ok"
  /\ UNCHANGED proxy

\* a variant of destroy that lets go of the handlers when the session ends
destroy_DropsHandlers ==
  /\ Ready
  /\ \E accepted \in BOOLEAN : CallJsNotify("destroy", 0, accepted)
  /\ session' = "destroyed"
  /\ proxy' = [proxy EXCEPT !.cbs = [op \in DOMAIN @ |-> <<>>]]
  /\ UNCHANGED initResult

destroy ==
  /\ Ready
  /\ \E accepted \in BOOLEAN : CallJsNotify("destroy", 0, accepted)
  /\ session' = "destroyed"
  /\ UNCHANGED <<initResult, proxy>>

forget ==
  /\ Ready
  /\ \E ino \in Inos, accepted \in BOOLEAN : CallJsNotify("forget", ino, accepted)
  /\ UNCHANGED <<session, initResult, proxy>>

lookup ==
  \E parent \in DirInos, name \in Names :
    CallJs("lookup", parent, name, 0, 0, str_from_os(name).panic)

getattr == \E ino \in Inos : CallJs("getattr", ino, <<>>, 0, 0, FALSE)

setattr == \E ino \in Inos : CallJs("setattr", ino, <<>>, 0, 0, FALSE)

open == \E ino \in Inos : CallJs("open", ino, <<>>, 0, 0, FALSE)

read ==
  \E ino \in Inos, size \in ReadSizes : CallJs("read", ino, <<>>, size, 0, FALSE)

release == \E ino \in Inos : CallJs("release", ino, <<>>, 0, 0, FALSE)

opendir == \E ino \in Inos : CallJs("opendir", ino, <<>>, 0, 0, FALSE)

\* cap: the number of entries the ReplyDirectory of this request can hold
readdir ==
  \E ino \in DirInos, cap \in 0..MaxBufCap : CallJs("readdir", ino, <<>>, 0, cap, FALSE)

releasedir == \E ino \in Inos : CallJs("releasedir", ino, <<>>, 0, 0, FALSE)

getxattr ==
  \E ino \in Inos, name \in Names, size \in XattrSizes :
    CallJs("getxattr", ino, name, size, 0, str_from_os(name).panic)

listxattr ==
  \E ino \in Inos, size \in XattrSizes : CallJs("listxattr", ino, <<>>, size, 0, FALSE)

access == \E ino \in Inos : CallJs("access", ino, <<>>, 0, 0, FALSE)

\* an operation that replies at once, without call_js!
ReplyNow(op, ino, rs) ==
  LET id == ncalls + 1 IN
  /\ Ready
  /\ ncalls < budget
  /\ ncalls' = id
  /\ cur' = Call(id, op, ino, <<>>, 0, 0)
  /\ elapsed' = 0
  /\ replies' = rs
  /\ replyCount' = [replyCount EXCEPT ![id] = @ + Len(rs)]
  /\ dirbuf' = <<>>
  /\ pc' = "returned"
  /\ readLog' = LogRead
  /\ UNCHANGED <<session, initResult, chan, handler, sendRes, notifs, napiPanicked,
                 budget, proxy, mounter>>

\* reply.error(Errno::ENOSYS)
readlink_reply == <<ReplyError(ENOSYS)>>

readlink == \E ino \in Inos : ReplyNow("readlink", ino, readlink_reply)

\* a variant of statfs that goes through call_js! like the handled operations
statfs_ViaBridge == \E ino \in Inos : CallJs("statfs", ino, <<>>, 0, 0, FALSE)

\* reply.statfs(0, 0, 0, 0, 0, BLOCK_SIZE as u32, 255, BLOCK_SIZE as u32)
statfs_reply == <<ReplyStatfs(0, 0, 0, 0, 0, BLOCK_SIZE, NAME_MAX, BLOCK_SIZE)>>

statfs == \E ino \in Inos : ReplyNow("statfs", ino, statfs_reply)

\* symlink and link are not implemented by CallbacksProxy (their bodies are
\* commented out): the Filesystem trait's defaults answer EPERM
symlink_reply == <<ReplyError(EPERM)>>

symlink == \E parent \in Inos : ReplyNow("symlink", parent, symlink_reply)

link_reply == <<ReplyError(EPERM)>>

link == \E ino \in Inos : ReplyNow("link", ino, link_reply)

(***************************************************************************)
(* Specifications                                                          *)
(***************************************************************************)
Next ==
  \/ init
  \/ destroy
  \/ forget
  \/ lookup
  \/ getattr
  \/ setattr
  \/ readlink
  \/ open
  \/ read
  \/ release
  \/ opendir
  \/ readdir
  \/ releasedir
  \/ statfs
  \/ getxattr
  \/ listxattr
  \/ access
  \/ symlink
  \/ link
  \/ Tick
  \/ Recv
  \/ HandlerResolves
  \/ HandlerRejects
  \/ JsCallFails
  \/ SenderDropped
  \/ RunNotification

Spec == Init /\ [][Next]_vars

\* A run of MaxReadCalls requests in which the kernel sends access and read
\* only: long enough for two reads after a call that timed out.
ReadInit == InitWith(MaxReadCalls, TRUE, Mounted, "new")

ReadNext ==
  \/ init
  \/ access
  \/ read
  \/ Tick
  \/ Recv
  \/ HandlerResolves
  \/ HandlerRejects
  \/ JsCallFails
  \/ SenderDropped
  \/ RunNotification

ReadSpec == ReadInit /\ [][ReadNext]_vars

\* The dispatch thread is an OS thread of its own and the clock advances:
\* a receive that can return does return, and time passes while it cannot.
FairSpec == Spec /\ WF_vars(Tick) /\ WF_vars(Recv)

(***************************************************************************)
(* JsFSMounter: make_and_mount, the thread that owns the session, unmount  *)
(***************************************************************************)
\* a step of the mounter or of the owning thread: the bridge is left alone
MounterStep(m) ==
  /\ mounter' = m
  /\ UNCHANGED <<initResult, pc, ncalls, cur, elapsed, chan, handler, sendRes,
                 replies, replyCount, dirbuf, notifs, napiPanicked, budget, proxy,
                 readLog>>

\* make_and_mount up to thread::spawn: the proxy is made, the unmount channel
\* is made, the owning thread is spawned with the receiver
make_and_mount ==
  /\ mounter.owner = "none"
  /\ MounterStep([mounter EXCEPT !.owner = "start", !.rx = "open", !.tx = "open"])
  /\ UNCHANGED session

\* a variant of ReturnMounter for a make_and_mount that waits for
\* spawn_mount2 and returns its failure
ReturnMounter_ReportsMountFailure ==
  /\ mounter.owner # "none"
  /\ mounter.result = "none"
  /\ mounter.mounting # "none"
  /\ MounterStep([mounter EXCEPT !.result = mounter.mounting])
  /\ UNCHANGED session

\* Ok(JsFSMounter { tx_unmount_signal }): make_and_mount returns without
\* looking at the owning thread
ReturnMounter ==
  /\ mounter.owner # "none"
  /\ mounter.result = "none"
  /\ MounterStep([mounter EXCEPT !.result = "Ok"])
  /\ UNCHANGED session

\* the owning thread: match spawn_mount2(fs_impl, ..) { Ok(mount_session) =>
\* goes on to recv; _ => () ends the thread, which drops the receiver }
spawn_mount2 ==
  /\ mounter.owner = "start"
  /\ \E ok \in BOOLEAN :
       IF ok
       THEN /\ MounterStep([mounter EXCEPT !.mounting = "Ok", !.owner = "recv",
                                           !.sessions = @ + 1])
            /\ session' = "new"
       ELSE /\ MounterStep([mounter EXCEPT !.mounting = "Err", !.owner = "exited",
                                           !.rx = "dropped"])
            /\ UNCHANGED session

\* unmount: let _ = self.tx_unmount_signal.send(()); Ok(())
unmount ==
  /\ mounter.result = "Ok"
  /\ mounter.tx = "open"
  /\ mounter.unmounts < MaxUnmounts
  /\ LET sent == mounter.rx = "open" IN
     MounterStep([mounter EXCEPT !.sigs = IF sent THEN @ + 1 ELSE @,
                                 !.unmounts = @ + 1,
                                 !.unmountRes = "Ok",
                                 !.panicked = @ \/ SendResultPanics(sent)])
  /\ UNCHANGED session

\* the JS side lets go of the JsFSMounter: its Sender is dropped
DropMounter ==
  /\ mounter.result = "Ok"
  /\ mounter.tx = "open"
  /\ MounterStep([mounter EXCEPT !.tx = "dropped"])
  /\ UNCHANGED session

\* rx_unmount_signal.recv().unwrap_or(()): returns with a queued signal, or
\* with Err once the sender is gone and nothing is queued
OwnerRecv ==
  /\ mounter.owner = "recv"
  /\ mounter.sigs > 0 \/ mounter.tx = "dropped"
  /\ MounterStep([mounter EXCEPT !.sigs = IF @ > 0 THEN @ - 1 ELSE @,
                                 !.owner = "join"])
  /\ UNCHANGED session

\* let _ = mount_session.join(): the call
OwnerJoin ==
  /\ mounter.owner = "join"
  /\ MounterStep([mounter EXCEPT !.owner = "joining", !.teardowns = @ + 1])
  /\ UNCHANGED session

\* join returns once the session's thread has ended (its result is
\* discarded); the owning thread ends and drops the receiver with what is
\* queued in it
JoinReturns ==
  /\ mounter.owner = "joining"
  /\ session = "destroyed" \/ pc = "panicked"
  /\ MounterStep([mounter EXCEPT !.owner = "exited", !.rx = "dropped", !.sigs = 0])
  /\ UNCHANGED session

\* A run from before make_and_mount, with MaxMountCalls kernel requests
MountInit == InitWith(MaxMountCalls, FALSE, NoMounter, "none")

MountNext ==
  \/ make_and_mount
  \/ ReturnMounter
  \/ spawn_mount2
  \/ unmount
  \/ DropMounter
  \/ OwnerRecv
  \/ OwnerJoin
  \/ JoinReturns
  \/ init
  \/ destroy
  \/ lookup
  \/ Tick
  \/ Recv
  \/ HandlerResolves
  \/ HandlerRejects
  \/ JsCallFails
  \/ SenderDropped
  \/ RunNotification

MountSpec == MountInit /\ [][MountNext]_vars

(***************************************************************************)
(* Properties                                                              *)
(***************************************************************************)
\* the call in cur is a value-returning call whose proxy method has returned
ReturnedValueCall == pc = "returned" /\ cur.op \in ValueOps

\* call c was made and its proxy method has returned
Finished(c) == c <= ncalls /\ ~(c = ncalls /\ pc \in {"waiting", "panicked"})

\* C1: every value-returning call whose handler was submitted ends with
\* exactly one reply on its reply sink, whatever the handler did (resolved
\* with a value or an error code, rejected, the call into it failed, its
\* sender was dropped, or it never settled): no reply sink ever holds two
\* replies, and none holds zero once the proxy method has returned.
C1_ExactlyOneReply ==
  /\ \A c \in CallIds : replyCount[c] <= 1
  /\ \A c \in CallIds : Finished(c) => replyCount[c] = 1
  /\ ReturnedValueCall => Len(replies) = 1 /\ replyCount[cur.id] = 1
  /\ pc = "waiting" => replies = <<>> /\ replyCount[cur.id] = 0

\* C1 witness: a call returned with its one reply after the call into the
\* handler failed
C1_Witness ==
  /\ ReturnedValueCall
  /\ cur.how = "call_failed"
  /\ cur.recv = "None"
  /\ Len(replies) = 1

\* C2: the dispatch thread's wait in recv_timeout always ends, and it never
\* lasts longer than the 30-second timeout, also when the completion path
\* never writes to the channel.
C2_WaitAlwaysEnds ==
  /\ [](pc = "waiting" => elapsed <= RecvTimeoutSecs)
  /\ ((pc = "waiting") ~> (pc = "returned"))

\* C2 witness: the wait ended by the timeout while the handler had not
\* settled and nothing was ever written to the channel
C2_Witness ==
  /\ pc = "returned"
  /\ cur.recv = "timeout"
  /\ handler[cur.id] = "pending"
  /\ sendRes[cur.id] = "none"

\* C3: a call that times out replies EIO; when its handler completes after
\* that, the send is discarded (nothing is queued), the call keeps its one
\* reply, and the completion path does not panic.
C3_TimeoutThenLateSend ==
  /\ (ReturnedValueCall /\ cur.recv = "timeout") => replies = <<ReplyError(EIO)>>
  /\ \A c \in CallIds :
       sendRes[c] = "discarded" =>
         /\ replyCount[c] = 1
         /\ chan[ChanOf(c)].buf = <<>>
         /\ c = cur.id => cur.recv = "timeout" /\ replies = <<ReplyError(EIO)>>
  /\ ~napiPanicked

\* C3 witness: the handler resolved with a value after its call timed out
C3_Witness ==
  /\ ReturnedValueCall
  /\ cur.recv = "timeout"
  /\ cur.how = "resolved"
  /\ sendRes[cur.id] = "discarded"
  /\ replies = <<ReplyError(EIO)>>

\* the reply carries attributes a unchanged: every field the handler gave
\* has the handler's value in the fuse attributes f
CarriesAttrs(f, a) ==
  /\ U64Is(f.ino, a.ino)
  /\ U64Is(f.size, a.size)
  /\ U64Is(f.mtime.epoch_ms, a.mtime)
  /\ U64Is(f.ctime.epoch_ms, a.ctime)
  /\ U64Is(f.crtime.epoch_ms, a.btime)
  /\ (a.kind = "Directory" => f.kind = "Directory")
  /\ (a.kind = "File" => f.kind = "RegularFile")
  /\ (a.kind = "SymLink" => f.kind = "Symlink")
  /\ f.perm = a.perm /\ f.uid = a.uid /\ f.gid = a.gid
  /\ f.rdev = a.rdev /\ f.flags = a.flags

\* the handler of the call in cur resolved in time with the arm `arm`
ResolvedWith(arm) ==
  ReturnedValueCall /\ cur.recv = "Some" /\ cur.val.arm = arm

\* C4: a success value that arrives before the timeout is replied unchanged:
\* lookup replies the handler's attributes with a 1-second validity and
\* generation 0, getattr and setattr the handler's attributes with a
\* 1-second validity, read the handler's bytes.
C4_SuccessVerbatim ==
  /\ (ResolvedWith("Attr") /\ cur.op = "lookup") =>
       /\ Len(replies) = 1 /\ replies[1].kind = "entry"
       /\ replies[1].ttl = 1 /\ replies[1].generation = 0
       /\ CarriesAttrs(replies[1].attr, cur.val.attrs)
  /\ (ResolvedWith("Attr") /\ cur.op \in {"getattr", "setattr"}) =>
       /\ Len(replies) = 1 /\ replies[1].kind = "attr"
       /\ replies[1].ttl = 1
       /\ CarriesAttrs(replies[1].attr, cur.val.attrs)
  /\ (ResolvedWith("Ok") /\ cur.op = "read") =>
       replies = <<ReplyData(cur.val.data)>>

\* the codes an Err arm is replied with: the code itself
ErrArmOps == {"lookup", "getattr", "setattr", "open", "opendir", "read", "readdir",
              "getxattr", "listxattr"}

\* C5 as stated: an Err arm carrying any integer E is replied as error E.
C5_ErrorCodeUnchanged ==
  (ResolvedWith("Err") /\ cur.op \in ErrArmOps) =>
    replies = <<ReplyError(cur.val.code)>>

\* C5 amended: an Err arm carrying a non-zero E is replied as error E,
\* unchanged; an Err arm carrying 0 is replied as EIO (an errno cannot be 0);
\* in both cases the error is the only reply and nothing is appended to a
\* directory buffer.
C5_NonZeroErrorCodeUnchanged ==
  (ResolvedWith("Err") /\ cur.op \in ErrArmOps) =>
    /\ cur.val.code # 0 => replies = <<ReplyError(cur.val.code)>>
    /\ cur.val.code = 0 => replies = <<ReplyError(EIO)>>
    /\ dirbuf = <<>>

\* C5 witness: a handler's ENOENT (2) reached the reply sink
C5_Witness ==
  /\ ResolvedWith("Err")
  /\ cur.op \in ErrArmOps
  /\ cur.val.code = 2
  /\ replies = <<ReplyError(2)>>

\* C6: when the completion path sends None (the promise rejected, or the
\* call into the handler failed) or the channel is closed without a send,
\* the reply is EIO and the translation closure is not run.
C6_NoneOrClosedIsEIO ==
  /\ (ReturnedValueCall /\ cur.recv \in {"None", "disconnected"}) =>
       /\ replies = <<ReplyError(EIO)>>
       /\ ~cur.translated
       /\ dirbuf = <<>>
  /\ (ReturnedValueCall /\ cur.how \in {"rejected", "call_failed", "dropped"}) =>
       /\ replies = <<ReplyError(EIO)>>
       /\ ~cur.translated
  /\ (ReturnedValueCall /\ cur.translated) => cur.recv = "Some"

\* C6 witness: the promise rejected in time and the call replied EIO
C6_Witness ==
  /\ ReturnedValueCall
  /\ cur.how = "rejected"
  /\ cur.recv = "None"
  /\ replies = <<ReplyError(EIO)>>

\* the number of entries of lst that fit a buffer of cap entries
Fit(lst, cap) == IF Len(lst) > cap THEN cap ELSE Len(lst)

\* C7: readdir with a listing appends the entries in the handler's order
\* (name, offset and kind of the i-th appended entry are those of the i-th
\* entry of the listing), stops at the first reply.add that reports full
\* without trying a later entry, and then sends ok once and no error.
C7_ReaddirListing ==
  (ResolvedWith("Lst") /\ cur.op = "readdir") =>
    LET lst == cur.val.lst IN
    /\ Len(dirbuf) = Fit(lst, cur.cap)
    /\ \A i \in 1..Len(dirbuf) :
         /\ dirbuf[i].name = lst[i].name
         /\ U64Is(dirbuf[i].offset, lst[i].offset)
         /\ dirbuf[i].kind = to_file_type(lst[i].kind)
    /\ cur.attempts = IF Len(lst) > cur.cap THEN cur.cap + 1 ELSE Len(lst)
    /\ replies = <<ReplyOk>>

\* C7 witness: a listing of four entries and a buffer that is full after
\* two: the reply holds the first two, the third add reported full, the
\* fourth entry was not tried
C7_Witness ==
  /\ ResolvedWith("Lst")
  /\ cur.op = "readdir"
  /\ Len(cur.val.lst) = 4
  /\ cur.cap = 2
  /\ Len(dirbuf) = 2 /\ dirbuf[1].name = <<97>> /\ dirbuf[2].name = <<98>>
  /\ cur.attempts = 3
  /\ replies = <<ReplyOk>>

\* C8: on an error path of readdir (the handler resolved with an error
\* code, rejected, its sender was dropped, or the call timed out) nothing is
\* appended to the reply buffer, no ok is sent, and the one reply is an error.
C8_ReaddirErrorPath ==
  (ReturnedValueCall /\ cur.op = "readdir" /\ ~ResolvedWith("Lst")) =>
    /\ dirbuf = <<>>
    /\ cur.attempts = 0
    /\ Len(replies) = 1
    /\ replies[1].kind = "error"
    /\ \A i \in 1..Len(replies) : replies[i].kind # "ok"
    /\ cur.recv # "Some" => replies[1].errno = EIO

\* C8 witness: a readdir handler resolved with an error code
C8_Witness ==
  /\ ResolvedWith("Err")
  /\ cur.op = "readdir"
  /\ cur.val.code = 2
  /\ replies = <<ReplyError(2)>>
  /\ dirbuf = <<>>

XattrOps == {"getxattr", "listxattr"}

\* C9 as stated: a getxattr or listxattr call with requested size 0 is
\* never answered with a data reply.
C9_SizeZeroNeverData ==
  (ReturnedValueCall /\ cur.op \in XattrOps /\ cur.size = 0) =>
    \A i \in 1..Len(replies) : replies[i].kind # "xattr_data"

\* C9 amended: the reply variant is the arm the handler resolved with,
\* whatever the requested size: the Size arm is answered with the size
\* variant carrying the handler's number and never with data, the Data arm
\* with the data variant carrying the handler's bytes.
C9_XattrArmRelayed ==
  /\ (ResolvedWith("Size") /\ cur.op \in XattrOps) =>
       replies = <<ReplyXattrSize(cur.val.size)>>
  /\ (ResolvedWith("Data") /\ cur.op \in XattrOps) =>
       replies = <<ReplyXattrData(cur.val.data)>>

\* C9 witness: requested size 0, the handler resolved with Size(17), and
\* the reply is the size variant carrying 17
C9_Witness ==
  /\ ResolvedWith("Size")
  /\ cur.op \in XattrOps
  /\ cur.size = 0
  /\ cur.val.size = 17
  /\ replies = <<ReplyXattrSize(17)>>

\* an operation without a handler was answered at once: no channel was
\* made for the call, no handler was invoked, the thread did not wait
AnsweredWithoutBridge ==
  /\ handler[cur.id] = "none"
  /\ sendRes[cur.id] = "none"
  /\ chan[ChanOf(cur.id)] = NoChannel
  /\ Len(replies) = 1
  /\ replyCount[cur.id] = 1

\* C10 as stated: every operation without a handler is answered with a
\* fixed not-supported or not-permitted error, without the bridge.
C10_NoHandlerFixedError ==
  /\ (cur.op \in NoHandlerOps /\ pc = "returned") =>
       /\ AnsweredWithoutBridge
       /\ replies[1].kind = "error"
       /\ replies[1].errno \in {ENOSYS, EPERM}
  /\ pc \in {"waiting", "panicked"} => cur.op \notin NoHandlerOps

\* C10 amended: readlink is answered with ENOSYS, symlink and link with
\* EPERM, and statfs with a fixed successful statfs reply (all counts 0,
\* block size 4096, name length 255, fragment size 4096); each at once,
\* without a channel, without a handler invocation and without waiting.
C10_NoHandlerFixedReply ==
  /\ (cur.op \in NoHandlerOps /\ pc = "returned") =>
       /\ AnsweredWithoutBridge
       /\ cur.op = "readlink" => replies = <<ReplyError(ENOSYS)>>
       /\ cur.op \in {"symlink", "link"} => replies = <<ReplyError(EPERM)>>
       /\ cur.op = "statfs" =>
            replies = <<ReplyStatfs(0, 0, 0, 0, 0, 4096, 255, 4096)>>
  /\ pc \in {"waiting", "panicked"} => cur.op \notin NoHandlerOps

\* C10 witness: statfs was answered while an earlier call's handler was
\* still pending, and no handler was invoked for it
C10_Witness ==
  /\ pc = "returned"
  /\ cur.op = "statfs"
  /\ cur.id = 2
  /\ handler[1] = "pending"
  /\ AnsweredWithoutBridge

\* C11: access replies ok exactly when the handler resolved with code 0;
\* a non-zero code is replied as that code, as an error; a rejection, a
\* failed call, a dropped sender or a timeout is replied as EIO.
C11_AccessOkIffZero ==
  /\ (ResolvedWith("Code") /\ cur.op = "access") =>
       /\ cur.val.code = 0 => replies = <<ReplyOk>>
       /\ cur.val.code # 0 => replies = <<ReplyError(cur.val.code)>>
  /\ (ReturnedValueCall /\ cur.op = "access" /\ cur.recv # "Some") =>
       replies = <<ReplyError(EIO)>>
  /\ (ReturnedValueCall /\ cur.op = "access" /\ replies = <<ReplyOk>>) =>
       cur.recv = "Some" /\ cur.val.code = 0

\* C11 witness: the access handler denied with code 2 and the reply is
\* error 2
C11_Witness ==
  /\ ResolvedWith("Code")
  /\ cur.op = "access"
  /\ cur.val.code = 2
  /\ replies = <<ReplyError(2)>>

ReleaseOps == {"release", "releasedir"}

\* C12 as stated: release and releasedir reply ok whatever the handler
\* returns and whatever else happens to the handler.
C12_ReleaseAlwaysOk ==
  (ReturnedValueCall /\ cur.op \in ReleaseOps) => replies = <<ReplyOk>>

\* C12 amended: release and releasedir reply ok whenever the handler
\* resolves before the timeout, whatever code it resolves with (a non-zero
\* code is not surfaced); when the handler rejects, the call into it fails,
\* its sender is dropped, or the wait times out, the reply is EIO as for
\* every other value-returning call.
C12_ReleaseOkWhenResolved ==
  /\ (ResolvedWith("Code") /\ cur.op \in ReleaseOps) => replies = <<ReplyOk>>
  /\ (ReturnedValueCall /\ cur.op \in ReleaseOps /\ cur.recv # "Some") =>
       replies = <<ReplyError(EIO)>>

\* C12 witness: the release handler resolved with the non-zero code 2 and
\* the reply is ok
C12_Witness ==
  /\ ResolvedWith("Code")
  /\ cur.op \in ReleaseOps
  /\ cur.val.code = 2
  /\ replies = <<ReplyOk>>

\* a step in which the dispatch thread made a fire-and-forget call
NotifyStep == cur'.op \in FireAndForgetOps /\ (cur' # cur \/ pc' # pc)

\* C13: init, destroy and forget hand their arguments to the handler and
\* return: the step makes no channel, starts no wait and submits no
\* value-returning handler; the call is queued for the handler when the
\* submission is accepted and nothing else happens when it is refused; the
\* dispatch thread is never suspended in such a call (it waits only in
\* value-returning calls); and init has returned Ok to the session
\* whatever became of the submission.
C13_FireAndForget ==
  /\ [](cur.op \in FireAndForgetOps =>
          pc = "returned" /\ elapsed = 0 /\ replies = <<>> /\ cur.id = 0)
  /\ [](pc = "waiting" => cur.op \in ValueOps)
  /\ [](session # "new" => initResult = "Ok")
  /\ [][NotifyStep =>
          /\ chan' = chan /\ handler' = handler /\ sendRes' = sendRes
          /\ ncalls' = ncalls /\ replyCount' = replyCount
          /\ notifs' = notifs + (IF cur'.how = "queued" THEN 1 ELSE 0)
          /\ cur'.how \in {"queued", "refused"}]_vars

\* C13 witness: the submission of init was refused, init returned Ok and
\* the session runs
C13_Witness ==
  /\ cur.op = "init"
  /\ cur.how = "refused"
  /\ pc = "returned"
  /\ initResult = "Ok"
  /\ session = "running"
  /\ notifs = 0

\* the read that has just returned was given the same arguments as the read
\* before it, and their handler did the same both times (a deterministic
\* handler)
SameReadSameHandler ==
  /\ ReturnedValueCall /\ cur.op = "read"
  /\ readLog.prev.set
  /\ readLog.prev.ino = cur.ino
  /\ readLog.prev.size = cur.size
  /\ readLog.prev.recv = cur.recv
  /\ readLog.prev.val = cur.val

\* C14: two reads with identical arguments whose handler did the same both
\* times got identical replies, whatever calls were made before or between
\* them and whatever became of those calls' handlers.
C14_ReadIdempotent ==
  SameReadSameHandler => replies = readLog.prev.replies

\* C14 witness: the first call timed out and its handler is still running;
\* the two reads after it, with the same arguments and the same bytes from
\* the handler, both replied those bytes
C14_Witness ==
  /\ handler[1] = "pending"
  /\ replyCount[1] = 1
  /\ ncalls = 3
  /\ SameReadSameHandler
  /\ cur.recv = "Some"
  /\ cur.val = [arm |-> "Ok", data |-> <<104, 105>>]
  /\ readLog.prev.replies = <<ReplyData(<<104, 105>>)>>
  /\ replies = <<ReplyData(<<104, 105>>)>>

\* C16: the channel a call waits on holds nothing but what the completion
\* path of that same call sent; a value a call received was sent by its own
\* handler invocation; and a send that came after its call had returned was
\* discarded and is in no channel.
C16_FreshChannelPerCall ==
  /\ pc = "waiting" =>
       \A i \in 1..Len(chan[ChanOf(cur.id)].buf) :
         chan[ChanOf(cur.id)].buf[i].from = cur.id
  /\ (ReturnedValueCall /\ cur.recv = "Some") =>
       /\ cur.val.arm # "Stale"
       /\ cur.how = "resolved"
       /\ sendRes[cur.id] = "ok"
  /\ \A c, d \in CallIds :
       sendRes[c] = "discarded" =>
         \A i \in 1..Len(chan[d].buf) : chan[d].buf[i].from # c

\* C16 witness: call 1 timed out and its completion path sent afterwards;
\* call 2 received the value of its own handler
C16_Witness ==
  /\ sendRes[1] = "discarded"
  /\ replyCount[1] = 1
  /\ ReturnedValueCall
  /\ cur.id = 2
  /\ cur.recv = "Some"
  /\ cur.how = "resolved"
  /\ cur.val.arm = "Ok"

\* the channel of call c was made (the call got as far as channel())
ChannelMade(c) == c <= ncalls /\ chan[ChanOf(c)].rx # "none"

\* no channel holds more than one message, and a completion path that has
\* sent has let go of its sender
AtMostOneSend ==
  \A c \in CallIds :
    /\ Len(chan[ChanOf(c)].buf) <= 1
    /\ sendRes[c] # "none" => chan[ChanOf(c)].tx = "dropped" /\ handler[c] = "done"

\* the dispatch thread received on the channel of call c: the call in cur
\* has the outcome of its receive, an earlier call has made its reply
ReceivedOn(c) ==
  IF c = cur.id THEN cur.recv # "none" ELSE replyCount[c] = 1

\* C17: every channel is written at most once (one send, Some or None) and
\* the dispatch thread performs exactly one timed receive on it: a channel
\* that was made is either the one the thread is waiting on now, or one it
\* has received on.
C17_WrittenOnceReadOnce ==
  /\ AtMostOneSend
  /\ \A c \in CallIds :
       ChannelMade(c) => (c = cur.id /\ pc = "waiting") \/ ReceivedOn(c)

\* the calls that were made and have no reply yet
Unreplied == {c \in CallIds : c <= ncalls /\ replyCount[c] = 0}

\* a step that submits the handler of call c
Submits(c) == handler[c] = "none" /\ handler'[c] = "pending"

\* C18: at any time at most one call is without its reply, and while a call
\* waits every earlier call has its reply; the step that submits the handler
\* of a call is taken only when every earlier call has its reply (the
\* handlers of earlier calls may still be pending then).
C18_OneOutstandingCall ==
  /\ [](Cardinality(Unreplied) <= 1)
  /\ [](pc = "waiting" => Unreplied = {cur.id})
  /\ [][\A c \in CallIds :
          Submits(c) => /\ \A d \in 1..(c - 1) : replyCount[d] = 1
                        /\ pc # "waiting"
                        /\ ncalls' = c]_vars

\* C18 witness: call 2 waits for its reply while the handler of call 1,
\* which timed out and was answered, is still pending
C18_Witness ==
  /\ pc = "waiting"
  /\ cur.id = 2
  /\ handler[2] = "pending"
  /\ handler[1] = "pending"
  /\ replyCount[1] = 1
  /\ replyCount[2] = 0

\* a step makes no second submission of a handler that was submitted, and
\* ends a pending invocation only by its own completion path: the end of
\* the wait (a reply after a None, a closed channel or a timeout) leaves
\* every invocation as it is
NoRetryNoCancel ==
  /\ \A c \in CallIds :
       /\ handler[c] = "pending" => handler'[c] \in {"pending", "done"}
       /\ handler[c] = "done" => handler'[c] = "done"
  /\ (pc = "waiting" /\ pc' = "returned") => handler' = handler

\* C19: every call that entered the bridge was submitted to its handler
\* exactly once: it was submitted, it is never submitted again, and a
\* submitted invocation is never cancelled.
C19_SubmittedExactlyOnce ==
  /\ [](\A c \in CallIds : ChannelMade(c) => handler[c] \in {"pending", "done"})
  /\ [][NoRetryNoCancel]_vars

\* C20: every entry that readdir appended to the reply buffer carries the
\* child inode, the next offset, the kind and the name of the handler's
\* entry at the same position.
C20_ReaddirEntryFields ==
  (ResolvedWith("Lst") /\ cur.op = "readdir") =>
    \A i \in 1..Len(dirbuf) :
      /\ U64Is(AsU64(dirbuf[i].ino), cur.val.lst[i].ino)
      /\ U64Is(dirbuf[i].offset, cur.val.lst[i].offset)
      /\ dirbuf[i].kind = to_file_type(cur.val.lst[i].kind)
      /\ dirbuf[i].name = cur.val.lst[i].name

\* the least number of blocks of BLOCK_SIZE bytes that hold n bytes
CeilBlocks(n) ==
  IF n % BLOCK_SIZE = 0 THEN n \div BLOCK_SIZE ELSE n \div BLOCK_SIZE + 1

\* C21: in every attribute reply (lookup, getattr, setattr) the block size
\* is 4096 and the block count is ceil(size / 4096) of the size the handler
\* gave: 0 for size 0, size/4096 for a multiple of 4096, size/4096 + 1
\* otherwise.
C21_BlocksFromSize ==
  (ResolvedWith("Attr") /\ cur.op \in {"lookup", "getattr", "setattr"}) =>
    /\ Len(replies) = 1
    /\ replies[1].attr.blksize = 4096
    /\ replies[1].attr.blocks.wraps52 = 0
    /\ replies[1].attr.blocks.low = CeilBlocks(cur.val.attrs.size)

\* the call in cur returned after a bridge failure: its wait timed out, or the
\* handler rejected, the call into it failed, or the channel was closed
BridgeFailure == ReturnedValueCall /\ cur.recv \in {"timeout", "None", "disconnected"}

\* the handler of the call in cur resolved in time with the explicit I/O
\* error code: EIO in its error arm, or EIO as its status code
ResolvedWithEIO ==
  /\ ReturnedValueCall /\ cur.recv = "Some"
  /\ cur.val.arm \in {"Err", "Code"}
  /\ cur.val.code = EIO

\* C22 as stated: for every value-returning operation the reply after a
\* bridge failure (timeout, rejection) is the same as the reply when the
\* handler resolves in time with the I/O error code: both are the one reply
\* error(EIO).
C22_FailureLikeHandlerEIO ==
  /\ BridgeFailure => replies = <<ReplyError(EIO)>> /\ dirbuf = <<>>
  /\ ResolvedWithEIO => replies = <<ReplyError(EIO)>> /\ dirbuf = <<>>

\* C22 amended: for every value-returning operation the reply after a bridge
\* failure is the one reply error(EIO); for the operations that surface the
\* handler's code (those with an error arm, and access) that is also the
\* reply when the handler resolves in time with the I/O error code; release
\* and releasedir reply ok when their handler resolves with that code, so
\* there a bridge failure differs from the handler's answer.
C22_FailureLikeSurfacedEIO ==
  /\ BridgeFailure => replies = <<ReplyError(EIO)>> /\ dirbuf = <<>>
  /\ (ResolvedWithEIO /\ cur.op \notin ReleaseOps) =>
       replies = <<ReplyError(EIO)>> /\ dirbuf = <<>>
  /\ (ResolvedWithEIO /\ cur.op \in ReleaseOps) => replies = <<ReplyOk>>

\* C22 witness: a read whose handler never settled timed out and replied
\* what a read replies when its handler resolves with EIO
C22_Witness ==
  /\ BridgeFailure
  /\ cur.op = "read"
  /\ cur.recv = "timeout"
  /\ handler[cur.id] = "pending"
  /\ replies = WithReply(cur, [arm |-> "Err", code |-> EIO]).replies

\* C23: no proxy operation aborts the dispatch thread and each ends in
\* exactly one reply, for every input: lookup and getxattr submit their
\* handler for every name, also one that is not valid UTF-8, and return with
\* one reply.
C23_NeverAbortsOneReply ==
  /\ pc # "panicked"
  /\ \A c \in CallIds : c <= ncalls /\ cur.id = c /\ cur.op \in {"lookup", "getxattr"} =>
       handler[c] # "none"
  /\ \A c \in CallIds : Finished(c) => replyCount[c] = 1

\* every bit of flags is one of the open-reply flags
AllBitsKnown(flags) == flags \in 0..FOPEN_KNOWN_MASK

\* C24: when the handler of open or opendir resolves in time with a handle
\* and flags: if every flag bit is a known open-reply flag the one reply is
\* 'opened' with that handle (its 64 bits) and those flags; if any bit is
\* unknown the one reply is error(EIO) and no 'opened' reply is made.
C24_OpenedOrEIO ==
  (ResolvedWith("Params") /\ cur.op \in {"open", "opendir"}) =>
    LET q == cur.val.params IN
    /\ AllBitsKnown(q.flags) =>
         replies = <<[kind |-> "opened", fh |-> AsU64(q.fh), flags |-> q.flags]>>
    /\ ~AllBitsKnown(q.flags) =>
         /\ replies = <<ReplyError(EIO)>>
         /\ \A i \in 1..Len(replies) : replies[i].kind # "opened"

\* C24 witness: the handler of opendir resolved with a known flag together
\* with an unknown one and the reply is EIO
C24_Witness ==
  /\ ResolvedWith("Params")
  /\ cur.op = "opendir"
  /\ cur.val.params.flags = 1048577
  /\ replies = <<ReplyError(EIO)>>

\* a step of the asynchronous completion path: the handler invocation of
\* some call comes to its end
CompletionStep == \E c \in CallIds : handler[c] = "pending" /\ handler'[c] = "done"

\* a step in which the reply sink of a value-returning call receives a reply
ValueReplyStep == replyCount' # replyCount /\ cur'.op \in ValueOps

\* C25: every reply of a value-returning call is made by the dispatch thread
\* in the step in which its receive on the channel of that call ends and the
\* proxy method returns: none before the receive (while the thread waits the
\* sink is untouched), none after the return; a step of the completion path
\* changes the channel and nothing of the reply sink, and leaves the
\* dispatch thread where it is.
C25_RepliesByDispatchThread ==
  /\ [](pc = "waiting" => replies = <<>> /\ replyCount[cur.id] = 0)
  /\ [][ValueReplyStep =>
          /\ pc = "waiting" /\ pc' = "returned"
          /\ cur'.id = cur.id
          /\ cur.recv = "none" /\ cur'.recv # "none"
          /\ chan'[ChanOf(cur.id)].rx = "dropped"
          /\ handler' = handler /\ sendRes' = sendRes]_vars
  /\ [][CompletionStep =>
          /\ replies' = replies /\ replyCount' = replyCount /\ dirbuf' = dirbuf
          /\ pc' = pc]_vars
  /\ [][\A c \in CallIds : Finished(c) => replyCount'[c] = replyCount[c]]_vars

\* C25 witness: the completion path has written the handler's value to the
\* channel while the dispatch thread is still in its wait, and the reply sink
\* of the call is untouched
C25_Witness ==
  /\ pc = "waiting"
  /\ cur.how = "resolved"
  /\ sendRes[cur.id] = "ok"
  /\ Len(chan[ChanOf(cur.id)].buf) = 1
  /\ replies = <<>>
  /\ replyCount[cur.id] = 0

\* a step in which the dispatch thread enters a value-returning call
EntersCall == pc # "waiting" /\ pc' = "waiting"

\* C26: no proxy operation modifies the handler registry: after any sequence
\* of calls the proxy is the one made at construction, with the registry it
\* was given as its only field, and every call invokes the callback
\* registered for its operation at construction; nothing else is carried
\* from one call to the next: every call starts with a new empty channel,
\* an untouched reply sink, an empty directory buffer and a wait of zero
\* seconds.
C26_RegistryReadOnly ==
  /\ [](proxy = CallbacksProxy_make(Registry))
  /\ [](DOMAIN proxy = {"cbs"})
  /\ [](cur.op \in DOMAIN Registry => cur.fn = Registry[cur.op])
  /\ [][proxy' = proxy]_vars
  /\ [][EntersCall =>
          /\ chan'[ChanOf(cur'.id)] = NewChannel
          /\ replies' = <<>> /\ replyCount'[cur'.id] = 0
          /\ dirbuf' = <<>> /\ elapsed' = 0]_vars

\* C26 witness: after init, two calls with a reply and destroy the registry
\* is the one given at construction
C26_Witness ==
  /\ session = "destroyed"
  /\ cur.op = "destroy"
  /\ ncalls >= 2
  /\ proxy.cbs = Registry

\* C27: make_and_mount returns a mounter successfully whether the mount
\* succeeds or fails; a failed mount ends the owning thread, with no session
\* made and nothing torn down; every unmount returns Ok and none panics,
\* however often it is called and also after a failed mount; a mounter makes
\* at most one session and joins at most once, and only a session it made.
C27_MounterLifecycle ==
  /\ mounter.result \in {"none", "Ok"}
  /\ mounter.mounting = "Err" =>
       /\ mounter.owner = "exited"
       /\ mounter.sessions = 0 /\ session = "none"
       /\ mounter.teardowns = 0
  /\ mounter.unmounts > 0 => mounter.unmountRes = "Ok"
  /\ ~mounter.panicked
  /\ mounter.sessions <= 1
  /\ mounter.teardowns <= mounter.sessions
  /\ mounter.owner \in {"join", "joining"} => mounter.mounting = "Ok"

\* C27 witness: the mount failed, make_and_mount returned a mounter, and
\* unmount was called twice on it and returned Ok
C27_Witness ==
  /\ mounter.mounting = "Err"
  /\ mounter.result = "Ok"
  /\ mounter.unmounts = 2
  /\ mounter.unmountRes = "Ok"
  /\ ~mounter.panicked

====
